---- MODULE Spec2Model ----
(***************************************************************************)
(* Model of the module API of go_di_architecture: request-id and exception *)
(* middleware, the module handler, the module service and the two module   *)
(* repositories (the in-memory map behind a mutex, and the GORM-backed one *)
(* whose handle GetDB() leaves nil).                                       *)
(***************************************************************************)
EXTENDS Integers, Sequences, FiniteSets, TLC

(***************************************************************************)
(* Bounds of the model.                                                    *)
(***************************************************************************)
\* number of request workers (goroutines serving one request each)
NumReq == 2

Reqs == 1..NumReq

(***************************************************************************)
(* Go strings.  A string is kept run-length encoded: a sequence of runs    *)
(* <<c, n>> (n >= 1 copies of character c), no two adjacent runs of the    *)
(* same character.  Characters are one-byte ASCII letters, the space, and  *)
(* the two-byte letters U+00E9 / U+00C9 (e-acute, lower and upper case).   *)
(***************************************************************************)
Chars == {"a", "A", "b", "d", " ", "U00E9", "U00C9"}

\* bytes of the UTF-8 encoding of a character
Width(c) == IF c \in {"U00E9", "U00C9"} THEN 2 ELSE 1

\* unicode.IsSpace
IsSpace(c) == c = " "

\* simple case folding of one character
FoldChar(c) == CASE c = "A" -> "a"
                 [] c = "U00C9" -> "U00E9"
                 [] OTHER -> c

\* n copies of c
Rep(c, n) == IF n = 0 THEN << >> ELSE << <<c, n>> >>

RECURSIVE SumRuns(_, _)
SumRuns(s, byteWise) ==
    IF s = << >> THEN 0
    ELSE (IF byteWise THEN Width(s[1][1]) ELSE 1) * s[1][2] + SumRuns(Tail(s), byteWise)

\* Go's len(s): the number of bytes
ByteLen(s) == SumRuns(s, TRUE)

\* utf8.RuneCountInString(s): the number of characters
RuneCount(s) == SumRuns(s, FALSE)

\* strings.TrimSpace(s)
TrimSpace(s) ==
    LET l == IF s # << >> /\ IsSpace(s[1][1]) THEN Tail(s) ELSE s
    IN  IF l # << >> /\ IsSpace(l[Len(l)][1]) THEN SubSeq(l, 1, Len(l) - 1) ELSE l

\* the string with every character case-folded, runs merged again
RECURSIVE FoldStr(_)
FoldStr(s) ==
    IF s = << >> THEN << >>
    ELSE LET rest == FoldStr(Tail(s))
             c    == FoldChar(s[1][1])
         IN  IF rest # << >> /\ rest[1][1] = c
             THEN << <<c, s[1][2] + rest[1][2]>> >> \o Tail(rest)
             ELSE << <<c, s[1][2]>> >> \o rest

\* strings.EqualFold(s, t)
EqualFold(s, t) == FoldStr(s) = FoldStr(t)

(***************************************************************************)
(* Path parameters and strconv.                                            *)
(* An id parameter is a sequence of characters.                            *)
(***************************************************************************)
Digits == {"0", "1", "2", "3", "4", "5", "6", "7", "8", "9"}

DigitVal(c) == CASE c = "0" -> 0 [] c = "1" -> 1 [] c = "2" -> 2 [] c = "3" -> 3
                 [] c = "4" -> 4 [] c = "5" -> 5 [] c = "6" -> 6 [] c = "7" -> 7
                 [] c = "8" -> 8 [] c = "9" -> 9

RECURSIVE DigitsVal(_, _)
DigitsVal(s, acc) ==
    IF s = << >> THEN acc ELSE DigitsVal(Tail(s), 10 * acc + DigitVal(s[1]))

\* strconv.Atoi(s): [ok, n]; an optional sign, then one or more digits
Atoi(s) ==
    LET signed == s # << >> /\ s[1] \in {"+", "-"}
        body   == IF signed THEN Tail(s) ELSE s
    IN  IF body = << >> \/ \E i \in 1..Len(body) : body[i] \notin Digits
        THEN [ok |-> FALSE, n |-> 0]
        ELSE [ok |-> TRUE,
              n  |-> IF signed /\ s[1] = "-" THEN 0 - DigitsVal(body, 0)
                     ELSE DigitsVal(body, 0)]

(***************************************************************************)
(* Go errors.  An error has an identity (the variable or call site that    *)
(* made it), its Error() text and, for fmt.Errorf("...%w"), the error it   *)
(* wraps.  An optional value is a sequence of length 0 or 1.               *)
(***************************************************************************)
NewError(id, text) == [id |-> id, text |-> <<text>>, wraps |-> << >>]

ErrNameRequired      == NewError("ErrNameRequired", "module name is required")
ErrNameLength        == NewError("ErrNameLength", "name must be 3-50 characters")
ErrNameExists        == NewError("ErrNameExists", "module name already exists")
ErrDescriptionLength == NewError("ErrDescriptionLength", "description exceeds 200 characters")
ErrNotFound          == NewError("ErrNotFound", "module not found")

\* errors.New("invalid ID format") of the in-memory repository
ErrInvalidID == NewError("memory.invalidID", "invalid ID format")
\* errors.New("invalid module ID format") of the GORM repository
ErrInvalidModuleID == NewError("gorm.invalidID", "invalid module ID format")

\* fmt.Errorf(prefix + ": %w", err)
Wrap(prefix, err) ==
    [id |-> "fmt.wrapError", text |-> <<prefix>> \o err.text, wraps |-> <<err>>]

\* errors.Is(err, target)
RECURSIVE ErrorsIs(_, _)
ErrorsIs(err, target) ==
    \/ err = target
    \/ err.wraps # << >> /\ ErrorsIs(err.wraps[1], target)

(***************************************************************************)
(* Response envelope.                                                      *)
(***************************************************************************)
StatusOK                  == 200
StatusCreated             == 201
StatusBadRequest          == 400
StatusNotFound            == 404
StatusConflict            == 409
StatusInternalServerError == 500

\* response.StatusToMessage
StatusToMessage(statusCode) ==
    CASE statusCode = StatusOK         -> "Operation completed successfully"
      [] statusCode = StatusCreated    -> "Resource created successfully"
      [] statusCode = StatusBadRequest -> "Invalid request parameters"
      [] statusCode = StatusNotFound   -> "Resource not found"
      [] statusCode = StatusConflict   -> "Resource already exists"
      [] OTHER                         -> "An unexpected error occurred"

\* NewSuccessResponse: Data is the payload handed in (nil is << >>), Error left nil.
\* meta.timestamp, the formatted time of the call, is left out of the model.
NewSuccessResponse(data, message, requestId) ==
    [success |-> TRUE, message |-> message, data |-> data, error |-> << >>,
     meta |-> [requestId |-> requestId]]

\* NewErrorResponse: Error set, Data left nil; details is nil (<< >>) or <<map>>
NewErrorResponse(code, message, details, requestId) ==
    [success |-> FALSE, message |-> message, data |-> << >>,
     error |-> <<[code |-> code, message |-> message, details |-> details]>>,
     meta |-> [requestId |-> requestId]]

\* ResponseMapper.Success: the envelope and the status to send
MapperSuccess(requestID, data, message, statusCode) ==
    [status |-> statusCode,
     body   |-> NewSuccessResponse(data, message, requestID)]

\* ResponseMapper.Error
MapperError(requestID, code, message, details, statusCode) ==
    [status |-> statusCode,
     body   |-> NewErrorResponse(code, message, details, requestID)]

(***************************************************************************)
(* Transport binding of ModuleRequest (ctx.ShouldBindJSON): the struct     *)
(* tags required,min=3,max=50 on Name and max=200 on Description count     *)
(* characters; each field reports its first failing tag.                   *)
(***************************************************************************)
BindNameMin == 3
BindNameMax == 50
BindDescMax == 200

NameTagFailure(name) ==
    IF name = << >> THEN <<"required">>
    ELSE IF RuneCount(name) < BindNameMin THEN <<"min">>
    ELSE IF RuneCount(name) > BindNameMax THEN <<"max">>
    ELSE << >>

DescTagFailure(description) ==
    IF RuneCount(description) > BindDescMax THEN <<"max">> ELSE << >>

\* the bind error of a request body: << >> when it binds, else
\* <<[validation |-> is it validator.ValidationErrors, fields |-> field -> tag]>>
ShouldBindJSON(body) ==
    IF ~body.wellFormed THEN <<[validation |-> FALSE, fields |-> << >>]>>
    ELSE LET n == NameTagFailure(body.dto.name)
             d == DescTagFailure(body.dto.description)
             failing == (IF n = << >> THEN {} ELSE {"Name"})
                        \cup (IF d = << >> THEN {} ELSE {"Description"})
         IN  IF failing = {} THEN << >>
             ELSE <<[validation |-> TRUE,
                     fields |-> [f \in failing |-> IF f = "Name" THEN n[1] ELSE d[1]]]>>

\* extractValidationErrors: field -> messages
extractValidationErrors(err) ==
    IF ~err.validation THEN << >>
    ELSE [f \in DOMAIN err.fields |->
            << CASE err.fields[f] = "required" -> "This field is required"
                 [] err.fields[f] = "min"      -> "Value is too short"
                 [] err.fields[f] = "max"      -> "Value exceeds maximum length"
                 [] OTHER                      -> "Validation failed" >>]

(***************************************************************************)
(* Handler: mapping of service errors to responses.                        *)
(***************************************************************************)
handleServiceErrorMutant(err, requestID) ==
    LET statusCode ==
            IF \/ ErrorsIs(err, ErrNameRequired)
               \/ ErrorsIs(err, ErrNameLength)
               \/ ErrorsIs(err, ErrNameExists)
               \/ ErrorsIs(err, ErrDescriptionLength) THEN StatusBadRequest
            ELSE IF ErrorsIs(err, ErrNotFound) THEN StatusNotFound
            ELSE StatusInternalServerError
        code == CASE statusCode = StatusBadRequest -> "VALIDATION_ERROR"
                  [] statusCode = StatusNotFound   -> "NOT_FOUND"
                  [] OTHER                         -> "INTERNAL_ERROR"
    IN  MapperError(requestID, code, StatusToMessage(statusCode), << >>, statusCode)
\* handleServiceError: the (status, envelope) written for a service error
handleServiceError(err, requestID) ==
    LET statusCode ==
            IF \/ ErrorsIs(err, ErrNameRequired)
               \/ ErrorsIs(err, ErrNameLength)
               \/ ErrorsIs(err, ErrDescriptionLength) THEN StatusBadRequest
            ELSE IF ErrorsIs(err, ErrNameExists) THEN StatusConflict
            ELSE IF ErrorsIs(err, ErrNotFound) THEN StatusNotFound
            ELSE StatusInternalServerError
        code == CASE statusCode = StatusBadRequest -> "VALIDATION_ERROR"
                  [] statusCode = StatusConflict   -> "RESOURCE_CONFLICT"
                  [] statusCode = StatusNotFound   -> "NOT_FOUND"
                  [] OTHER                         -> "INTERNAL_ERROR"
        details == IF statusCode = StatusBadRequest
                   THEN << [f \in {"name"} |-> <<err.text>>] >>
                   ELSE << >>
    IN  MapperError(requestID, code, StatusToMessage(statusCode), details,
                    statusCode)

(***************************************************************************)
(* Requests the model sends.                                               *)
(***************************************************************************)
\* limits of the service's business rules
NameMinLen == 3
NameMaxLen == 50
DescMaxLen == 200

NameEmpty       == << >>
NameBlank       == Rep(" ", 3)
NameTwo         == Rep("a", 2)
NameTwoPadded   == Rep("a", 2) \o Rep(" ", 3)
NameThree       == Rep("a", NameMinLen)
NameThreeUpper  == Rep("A", NameMinLen)
NameFifty       == Rep("b", NameMaxLen)
NameFiftyOne    == Rep("b", NameMaxLen + 1)
NameFiftyWide   == Rep("U00E9", NameMaxLen)

Names == {NameEmpty, NameBlank, NameTwo, NameTwoPadded, NameThree, NameThreeUpper,
          NameFifty, NameFiftyOne, NameFiftyWide}

DescEmpty  == << >>
DescMax    == Rep("d", DescMaxLen)
DescOver   == Rep("d", DescMaxLen + 1)
\* 101 two-byte characters: 101 characters, 202 bytes
DescWide   == Rep("U00E9", (DescMaxLen \div 2) + 1)

Descs == {DescEmpty, DescMax, DescOver, DescWide}

\* ModuleRequest values decoded from a request body
ModuleRequests ==
    [name : Names, description : {DescEmpty}, isActive : {FALSE}]
    \cup [name : {NameThree, NameThreeUpper}, description : Descs \ {DescEmpty},
          isActive : {TRUE}]

NoRequest == [name |-> << >>, description |-> << >>, isActive |-> FALSE]

Bodies == [wellFormed : {TRUE}, dto : ModuleRequests]
          \cup {[wellFormed |-> FALSE, dto |-> NoRequest]}
NoBody == [wellFormed |-> FALSE, dto |-> NoRequest]

\* id path parameters: not a number, zero, negative, and the first ids
IdParams == {<<"a", "b", "c">>, <<"0">>, <<"-", "1">>} \cup {<<DigitChar>> : DigitChar \in {"1", "2"}}

\* an inbound X-Request-Id header (<< >>: none sent)
ClientRequestId == <<"client", "7f3a">>
\* uuid.New().String(): a fresh identifier
NewUUID(r) == <<"uuid", r>>

Inputs ==
    [route : {"create"}, header : {<< >>}, body : Bodies, id : {<< >>}]
    \cup [route : {"get"}, header : {<< >>}, body : {NoBody}, id : IdParams]
    \cup {[route |-> "create", header |-> ClientRequestId,
           body |-> [wellFormed |-> TRUE,
                     dto |-> [name |-> NameThree, description |-> DescEmpty, isActive |-> FALSE]],
           id |-> << >>]}
NoInput == [route |-> "none", header |-> << >>, body |-> NoBody, id |-> << >>]

(***************************************************************************)
(* State.                                                                  *)
(***************************************************************************)
VARIABLES
    backend,          \* which ModuleRepository is built in: "memory" or "gorm"
    data,             \* memory ModuleRepository.data: id -> Module
    autoIncrementID,  \* memory ModuleRepository.autoIncrementID
    mu,               \* memory ModuleRepository.mu: 0 (free) or the worker holding it
    clock,            \* the last reading of time.Now()
    pc,               \* where each worker is
    input,            \* the request each worker serves
    ctx,              \* gin.Context: the "request_id" key, the X-Request-Id and Location
                      \* response headers, the status set on the writer, Errors
    exists,           \* CreateModule's local exists: << >> until the repository answered
    entity,           \* CreateModule's local entity: << >> until built
    svcErr,           \* the error the service returned to the handler, if any
    panicVal,         \* the value recover() returned in ExceptionHandler, if any
    written           \* the responses written with ctx.JSON: status, body, Location

vars == <<backend, data, autoIncrementID, mu, clock, pc, input, ctx, exists, entity,
          svcErr, panicVal, written>>

NoCtx == [request_id |-> << >>, header |-> << >>, location |-> << >>,
          status |-> StatusOK, errors |-> << >>]

Init ==
    /\ backend \in {"memory", "gorm"}
    /\ data = << >>
    /\ autoIncrementID = 1
    /\ mu = 0
    /\ clock = 0
    /\ pc = [r \in Reqs |-> "idle"]
    /\ input = [r \in Reqs |-> NoInput]
    /\ ctx = [r \in Reqs |-> NoCtx]
    /\ exists = [r \in Reqs |-> << >>]
    /\ entity = [r \in Reqs |-> << >>]
    /\ svcErr = [r \in Reqs |-> << >>]
    /\ panicVal = [r \in Reqs |-> << >>]
    /\ written = [r \in Reqs |-> << >>]

\* the reading time.Now() returns next: the wall clock is taken to advance
\* between any two readings, so every reading is later than the ones before it
Now == {clock + 1}

(***************************************************************************)
(* Middleware.                                                             *)
(***************************************************************************)
RequestIDHandlerMutant(header, r) ==
    [request_id |-> NewUUID(r), header |-> NewUUID(r), location |-> << >>,
     status |-> StatusOK, errors |-> << >>]
\* RequestIDHandler: the inbound header, or a fresh uuid when it is empty;
\* kept under "request_id" and echoed in the X-Request-Id response header.
\* The writer's status is 200 until a handler sets one.
RequestIDHandler(header, r) ==
    LET requestID == IF header = << >> THEN NewUUID(r) ELSE header
    IN  [request_id |-> requestID, header |-> requestID, location |-> << >>,
         status |-> StatusOK, errors |-> << >>]

\* ctx.Writer.Status(): the status of the last write, else the status set
\* with ctx.Status, 200 when none was
WriterStatus(c, w) == IF w = << >> THEN c.status ELSE w[Len(w)].status

\* handleError: the envelope for an error a handler attached to the context
handleError(c, w, err, requestID) ==
    LET statusCode == IF WriterStatus(c, w) = StatusOK THEN StatusInternalServerError
                      ELSE WriterStatus(c, w)
    IN  [status |-> statusCode,
         body   |-> NewErrorResponse("INTERNAL_ERROR", StatusToMessage(statusCode),
                                     << [f \in {"error"} |-> <<err.text>>] >>,
                                     requestID)]

ExceptionHandlerAfterNextMutant(c, w) ==
    IF Len(c.errors) > 0 \/ WriterStatus(c, w) >= StatusBadRequest
    THEN Append(w, [status |-> WriterStatus(c, w),
                    body   |-> NewErrorResponse("INTERNAL_ERROR",
                                                StatusToMessage(WriterStatus(c, w)),
                                                << >>, c.request_id)])
    ELSE w
\* ExceptionHandler after ctx.Next() returned: the responses written once the
\* handler's own writes w are followed by the conversion of ctx.Errors
ExceptionHandlerAfterNext(c, w) ==
    IF Len(c.errors) > 0
    THEN Append(w, handleError(c, w, c.errors[1], c.request_id))
    ELSE w

ExceptionHandlerRecoverMutant(c, err) ==
    [status |-> StatusInternalServerError,
     body   |-> NewErrorResponse("INTERNAL_ERROR",
                                 StatusToMessage(StatusInternalServerError),
                                 << [f \in {"error"} |-> <<err>>] >>, c.request_id)]
\* ExceptionHandler's deferred recover(): the 500 envelope for a panic with
\* value err, which is logged and goes nowhere else
ExceptionHandlerRecover(c, err) ==
    [status |-> StatusInternalServerError,
     body   |-> NewErrorResponse("INTERNAL_ERROR",
                                 StatusToMessage(StatusInternalServerError),
                                 << >>, c.request_id)]

(***************************************************************************)
(* Service rules.                                                          *)
(***************************************************************************)
\* ModuleService.CreateModule, steps 1 and 2: the error returned before the
\* repository is asked, << >> when there is none
CreateModuleStep1And2(dto) ==
    IF TrimSpace(dto.name) = << >> THEN <<ErrNameRequired>>
    ELSE IF ByteLen(dto.name) < NameMinLen \/ ByteLen(dto.name) > NameMaxLen THEN <<ErrNameLength>>
    ELSE << >>

CreateModuleStep3And4Mutant(found, dto) ==
    IF ByteLen(dto.description) > DescMaxLen THEN <<ErrDescriptionLength>>
    ELSE IF found THEN <<ErrNameExists>>
    ELSE << >>
\* ModuleService.CreateModule, steps 3 and 4, given the repository's answer
CreateModuleStep3And4(found, dto) ==
    IF found THEN <<ErrNameExists>>
    ELSE IF ByteLen(dto.description) > DescMaxLen THEN <<ErrDescriptionLength>>
    ELSE << >>

\* the ModuleResponse the service maps an entity to
ToModuleResponse(m) ==
    [id |-> m.ID, name |-> m.Name, description |-> m.Description,
     isActive |-> m.IsActive, createdAt |-> m.CreatedAt]

\* ModuleService.GetModuleById, given what the repository returned: a
\* repository error as it is, an absent module as ErrNotFound
ServiceGetModuleByIdMutant(res) ==
    IF res.err # << >> THEN [dto |-> << >>, err |-> res.err]
    ELSE IF res.module = << >> THEN [dto |-> << >>, err |-> << >>]
    ELSE [dto |-> <<ToModuleResponse(res.module[1])>>, err |-> << >>]
ServiceGetModuleById(res) ==
    IF res.err # << >> THEN [dto |-> << >>, err |-> res.err]
    ELSE IF res.module = << >> THEN [dto |-> << >>, err |-> <<ErrNotFound>>]
    ELSE [dto |-> <<ToModuleResponse(res.module[1])>>, err |-> << >>]

\* ModuleHandler.GetModuleById, given what the service returned
HandlerGetModuleById(res, requestID) ==
    IF res.err # << >> THEN handleServiceError(res.err[1], requestID)
    ELSE MapperSuccess(requestID, res.dto, StatusToMessage(StatusOK), StatusOK)

\* strconv.Itoa for the ids the model reaches
Itoa(n) == IF n < 0 THEN <<"-", -n>> ELSE <<n>>

(***************************************************************************)
(* Steps of a request.                                                     *)
(***************************************************************************)
\* the handler wrote resp and returned; the exception middleware resumes
Respond(r, c, resp) ==
    /\ written' = [written EXCEPT ![r] = ExceptionHandlerAfterNext(c, Append(@, resp))]
    /\ pc' = [pc EXCEPT ![r] = "done"]

\* the runtime's panic value for a nil pointer dereference
NilDereference == "runtime error: invalid memory address or nil pointer dereference"

\* a panic with value err unwound to the exception middleware, which answers
\* and aborts
Panic(r, err) ==
    /\ panicVal' = [panicVal EXCEPT ![r] = <<err>>]
    /\ written' = [written EXCEPT ![r] = Append(@, ExceptionHandlerRecover(ctx[r], err))]
    /\ pc' = [pc EXCEPT ![r] = "done"]

\* POST /modules arrives with one of the requests ins: middleware,
\* ModuleHandler.CreateModule up to the repository call of
\* ModuleService.CreateModule. Requests are numbered in the order of their
\* arrival.
StartCreateFrom(r, ins) ==
    /\ pc[r] = "idle"
    /\ \A q \in Reqs : q < r => pc[q] # "idle"
    /\ \E in \in ins :
         /\ in.route = "create"
         /\ LET c       == RequestIDHandler(in.header, r)
                bindErr == ShouldBindJSON(in.body)
                pre     == CreateModuleStep1And2(in.body.dto)
            IN  /\ input' = [input EXCEPT ![r] = in]
                /\ ctx' = [ctx EXCEPT ![r] = c]
                /\ IF bindErr # << >>
                   THEN /\ Respond(r, c,
                              MapperError(c.request_id, "VALIDATION_ERROR",
                                          StatusToMessage(StatusBadRequest),
                                          <<extractValidationErrors(bindErr[1])>>,
                                          StatusBadRequest))
                        /\ UNCHANGED svcErr
                   ELSE IF pre # << >>
                   THEN /\ svcErr' = [svcErr EXCEPT ![r] = pre]
                        /\ Respond(r, c, handleServiceError(pre[1], c.request_id))
                   ELSE /\ pc' = [pc EXCEPT ![r] = "nameCheck"]
                        /\ UNCHANGED <<svcErr, written>>
    /\ UNCHANGED <<backend, data, autoIncrementID, mu, clock, exists, entity, panicVal>>

StartCreate(r) == StartCreateFrom(r, Inputs)

\* GET /modules/:id arrives with one of the requests ins: middleware,
\* ModuleHandler.GetModuleById up to the repository call of
\* ModuleService.GetModuleById
StartGetFrom(r, ins) ==
    /\ pc[r] = "idle"
    /\ \A q \in Reqs : q < r => pc[q] # "idle"
    /\ \E in \in ins :
         /\ in.route = "get"
         /\ input' = [input EXCEPT ![r] = in]
         /\ ctx' = [ctx EXCEPT ![r] = RequestIDHandler(in.header, r)]
    /\ pc' = [pc EXCEPT ![r] = "lookup"]
    /\ UNCHANGED <<backend, data, autoIncrementID, mu, clock, exists, entity, svcErr, written, panicVal>>

StartGet(r) == StartGetFrom(r, Inputs)

\* r.mu.Lock() of the in-memory repository, at its three call sites
Lock(r, from, to) ==
    /\ backend = "memory"
    /\ pc[r] = from
    /\ mu = 0
    /\ mu' = r
    /\ pc' = [pc EXCEPT ![r] = to]
    /\ UNCHANGED <<backend, data, autoIncrementID, clock, input, ctx, exists, entity,
                   svcErr, written, panicVal>>

LockIsModuleNameExists(r) == Lock(r, "nameCheck", "inNameCheck")
LockCreateModule(r)       == Lock(r, "persist", "inCreate")
LockGetModuleById(r)      == Lock(r, "lookup", "inLookup")

\* the in-memory scan: some stored name equal to name under case folding,
\* at an id other than excludeId
NameFoundMutant(name, excludeId) ==
    \E id \in DOMAIN data : data[id].Name = name /\ id # excludeId
NameFound(name, excludeId) ==
    \E id \in DOMAIN data : EqualFold(data[id].Name, name) /\ id # excludeId

IsModuleNameExistsMutant(r) ==
    /\ pc[r] = "inNameCheck"
    /\ mu = r
    /\ LET dto   == input[r].body.dto
           found == NameFound(dto.name, 0)
           err   == CreateModuleStep3And4(found, dto)
       IN  /\ exists' = [exists EXCEPT ![r] = <<found>>]
           /\ mu' = 0
           /\ IF err # << >>
              THEN /\ svcErr' = [svcErr EXCEPT ![r] = err]
                   /\ Respond(r, ctx[r], handleServiceError(err[1], ctx[r].request_id))
                   /\ autoIncrementID' = autoIncrementID + 1
                   /\ UNCHANGED <<entity, clock>>
              ELSE /\ \E t \in Now :
                        /\ clock' = t
                        /\ entity' = [entity EXCEPT ![r] =
                                        <<[ID |-> 0, Name |-> dto.name,
                                           Description |-> dto.description,
                                           IsActive |-> dto.isActive, CreatedAt |-> t]>>]
                   /\ pc' = [pc EXCEPT ![r] = "persist"]
                   /\ UNCHANGED <<svcErr, written, autoIncrementID>>
    /\ UNCHANGED <<backend, data, input, ctx, panicVal>>
\* in-memory IsModuleNameExists under the lock, its unlock, and the rest of
\* ModuleService.CreateModule up to the repository's CreateModule
IsModuleNameExists(r) ==
    /\ pc[r] = "inNameCheck"
    /\ mu = r
    /\ LET dto   == input[r].body.dto
           found == NameFound(dto.name, 0)
           err   == CreateModuleStep3And4(found, dto)
       IN  /\ exists' = [exists EXCEPT ![r] = <<found>>]
           /\ mu' = 0
           /\ IF err # << >>
              THEN /\ svcErr' = [svcErr EXCEPT ![r] = err]
                   /\ Respond(r, ctx[r], handleServiceError(err[1], ctx[r].request_id))
                   /\ UNCHANGED <<entity, clock>>
              ELSE /\ \E t \in Now :
                        /\ clock' = t
                        /\ entity' = [entity EXCEPT ![r] =
                                        <<[ID |-> 0, Name |-> dto.name,
                                           Description |-> dto.description,
                                           IsActive |-> dto.isActive, CreatedAt |-> t]>>]
                   /\ pc' = [pc EXCEPT ![r] = "persist"]
                   /\ UNCHANGED <<svcErr, written>>
    /\ UNCHANGED <<backend, data, autoIncrementID, input, ctx, panicVal>>

AssignIDMutant(r) ==
    /\ pc[r] = "inCreate"
    /\ mu = r
    /\ entity' = [entity EXCEPT ![r] = <<[@[1] EXCEPT !.ID = autoIncrementID]>>]
    /\ pc' = [pc EXCEPT ![r] = "inStore"]
    /\ UNCHANGED <<backend, data, autoIncrementID, mu, clock, input, ctx, exists, svcErr,
                   written, panicVal>>
\* in-memory CreateModule under the lock: m.ID = r.autoIncrementID; r.autoIncrementID++
AssignID(r) ==
    /\ pc[r] = "inCreate"
    /\ mu = r
    /\ entity' = [entity EXCEPT ![r] = <<[@[1] EXCEPT !.ID = autoIncrementID]>>]
    /\ autoIncrementID' = autoIncrementID + 1
    /\ pc' = [pc EXCEPT ![r] = "inStore"]
    /\ UNCHANGED <<backend, data, mu, clock, input, ctx, exists, svcErr, written, panicVal>>

MapPutMutant(d, id, m) ==
    [k \in DOMAIN d \cup {id} |-> IF k = id THEN [m EXCEPT !.CreatedAt = 0] ELSE d[k]]
\* the map after r.data[id] = m
MapPut(d, id, m) == [k \in DOMAIN d \cup {id} |-> IF k = id THEN m ELSE d[k]]

\* in-memory CreateModule: r.data[m.ID] = m, the unlock, and the 201 response
StoreModule(r) ==
    /\ pc[r] = "inStore"
    /\ mu = r
    /\ LET m == entity[r][1]
           c == [ctx[r] EXCEPT !.location = <<"/api/v1/modules/">> \o Itoa(m.ID)]
       IN  /\ data' = MapPut(data, m.ID, m)
           /\ mu' = 0
           /\ ctx' = [ctx EXCEPT ![r] = c]
           /\ Respond(r, c,
                 MapperSuccess(c.request_id, <<ToModuleResponse(m)>>,
                               StatusToMessage(StatusCreated), StatusCreated))
    /\ UNCHANGED <<backend, autoIncrementID, clock, input, exists, entity, svcErr, panicVal>>

\* in-memory ModuleRepository.GetModuleById: the module found (<< >>: nil) and
\* the error (<< >>: nil)
MemoryGetModuleByIdMutant(id) ==
    LET moduleID == Atoi(id)
    IN  IF ~moduleID.ok \/ moduleID.n \notin DOMAIN data
        THEN [module |-> << >>, err |-> << >>]
        ELSE [module |-> <<data[moduleID.n]>>, err |-> << >>]
MemoryGetModuleById(id) ==
    LET moduleID == Atoi(id)
    IN  IF ~moduleID.ok THEN [module |-> << >>, err |-> <<ErrInvalidID>>]
        ELSE IF moduleID.n \notin DOMAIN data THEN [module |-> << >>, err |-> << >>]
        ELSE [module |-> <<data[moduleID.n]>>, err |-> << >>]

GetModuleByIdMutant(r) ==
    /\ pc[r] = "inLookup"
    /\ mu = r
    /\ mu' = IF Atoi(input[r].id).ok THEN 0 ELSE r
    /\ LET res == ServiceGetModuleById(MemoryGetModuleById(input[r].id))
       IN  /\ svcErr' = [svcErr EXCEPT ![r] = res.err]
           /\ Respond(r, ctx[r], HandlerGetModuleById(res, ctx[r].request_id))
    /\ UNCHANGED <<backend, data, autoIncrementID, clock, input, ctx, exists, entity, panicVal>>
\* in-memory GetModuleById under the lock, its unlock, ModuleService.GetModuleById
\* and the handler's response
GetModuleById(r) ==
    /\ pc[r] = "inLookup"
    /\ mu = r
    /\ mu' = 0
    /\ LET res == ServiceGetModuleById(MemoryGetModuleById(input[r].id))
       IN  /\ svcErr' = [svcErr EXCEPT ![r] = res.err]
           /\ Respond(r, ctx[r], HandlerGetModuleById(res, ctx[r].request_id))
    /\ UNCHANGED <<backend, data, autoIncrementID, clock, input, ctx, exists, entity, panicVal>>

\* GORM IsModuleNameExists on the nil handle GetDB() returns: the name is not
\* empty here (step 1 passed), so r.db.Model(...) dereferences nil and panics
GormIsModuleNameExists(r) ==
    /\ backend = "gorm"
    /\ pc[r] = "nameCheck"
    /\ input[r].body.dto.name # << >>
    /\ Panic(r, NilDereference)
    /\ UNCHANGED <<backend, data, autoIncrementID, mu, clock, input, ctx, exists, entity,
                   svcErr>>

\* GORM GetModuleById on the nil handle: a malformed id is refused before the
\* handle is touched; otherwise r.db.First(...) dereferences nil and panics
GormGetModuleById(r) ==
    /\ backend = "gorm"
    /\ pc[r] = "lookup"
    /\ IF ~Atoi(input[r].id).ok
       THEN LET res == ServiceGetModuleById([module |-> << >>, err |-> <<ErrInvalidModuleID>>])
            IN  /\ svcErr' = [svcErr EXCEPT ![r] = res.err]
                /\ Respond(r, ctx[r], HandlerGetModuleById(res, ctx[r].request_id))
                /\ UNCHANGED panicVal
       ELSE /\ Panic(r, NilDereference)
            /\ UNCHANGED svcErr
    /\ UNCHANGED <<backend, data, autoIncrementID, mu, clock, input, ctx, exists, entity>>

Next ==
    \E r \in Reqs :
        \/ StartCreate(r)
        \/ StartGet(r)
        \/ LockIsModuleNameExists(r)
        \/ IsModuleNameExists(r)
        \/ LockCreateModule(r)
        \/ AssignID(r)
        \/ StoreModule(r)
        \/ LockGetModuleById(r)
        \/ GetModuleById(r)
        \/ GormIsModuleNameExists(r)
        \/ GormGetModuleById(r)

Spec == Init /\ [][Next]_vars

\* the steps of a request once it has arrived: each is a step of the goroutine
\* serving it
WorkerStep(r) ==
    \/ LockIsModuleNameExists(r)
    \/ IsModuleNameExists(r)
    \/ LockCreateModule(r)
    \/ AssignID(r)
    \/ StoreModule(r)
    \/ LockGetModuleById(r)
    \/ GetModuleById(r)
    \/ GormIsModuleNameExists(r)
    \/ GormGetModuleById(r)

\* one request for each path through the two handlers: a body that does not
\* bind, a create that is stored, one refused for its name (a case variant of
\* the first) and one for its description, and a get-by-id with a malformed
\* and with a well-formed id
PathInputs ==
    {in \in Inputs :
        /\ in.header = << >>
        /\ \/ in.route = "get" /\ in.id \in {<<"a", "b", "c">>, <<"1">>}
           \/ in.route = "create" /\ ~in.body.wellFormed
           \/ /\ in.route = "create"
              /\ in.body.wellFormed
              /\ in.body.dto \in {[name |-> NameThree, description |-> DescEmpty,
                                    isActive |-> FALSE],
                                   [name |-> NameThreeUpper, description |-> DescEmpty,
                                    isActive |-> FALSE],
                                   [name |-> NameThreeUpper, description |-> DescWide,
                                    isActive |-> TRUE]}}

FairNext ==
    \E r \in Reqs :
        \/ StartCreateFrom(r, PathInputs)
        \/ StartGetFrom(r, PathInputs)
        \/ WorkerStep(r)

\* the scheduler runs every goroutine that stays runnable; requests arrive
\* when clients send them, under no fairness
FairSpec == Init /\ [][FairNext]_vars /\ \A r \in Reqs : WF_vars(WorkerStep(r))

(***************************************************************************)
(* Vocabulary of the properties.                                           *)
(***************************************************************************)
Started(r)  == pc[r] # "idle"
Done(r)     == pc[r] = "done"
IsCreate(r) == input[r].route = "create"
IsGet(r)    == input[r].route = "get"
Dto(r)      == input[r].body.dto

\* the request body passed transport validation
Bound(r) == IsCreate(r) /\ ShouldBindJSON(input[r].body) = << >>

\* the one response of a finished request, as (status, error code)
StatusAndCode(resp) ==
    <<resp.status, IF resp.body.error = << >> THEN "" ELSE resp.body.error[1].code>>

Answered(r, status, code) ==
    /\ Done(r)
    /\ Len(written[r]) = 1
    /\ StatusAndCode(written[r][1]) = <<status, code>>

\* the create request was answered 201; its data.id
Created(r)   == IsCreate(r) /\ Answered(r, StatusCreated, "")
CreatedId(r) == written[r][1].body.data[1].id

\* a name of 3 to 50 characters that is not blank, a description of at most 200
\* characters: the data model's notion of a valid request
ValidName(name)        == TrimSpace(name) # << >> /\ RuneCount(name) \in NameMinLen..NameMaxLen
ValidDescription(desc) == RuneCount(desc) <= DescMaxLen

\* some stored module other than the one worker r stored has this name, case-insensitively
StoredByAnother(r, name) ==
    \E id \in DOMAIN data :
        /\ EqualFold(data[id].Name, name)
        /\ ~(entity[r] # << >> /\ entity[r][1].ID = id)

(***************************************************************************)
(* C1: no reachable state of the in-memory store holds two modules whose   *)
(* names are equal case-insensitively, under any interleaving of create    *)
(* requests.                                                               *)
(***************************************************************************)
C1_NameUniqueness ==
    \A i, j \in DOMAIN data : i # j => ~EqualFold(data[i].Name, data[j].Name)

(***************************************************************************)
(* C2: when the requests in flight are creates with valid descriptions and *)
(* pairwise distinct valid names (3-50 characters, not blank), each one    *)
(* that has finished was answered 201, the returned ids are pairwise       *)
(* distinct, each returned id retrieves the module of that request, and    *)
(* once all have finished the store holds exactly one record per request.  *)
(***************************************************************************)
C2_DistinctValidNamesAllSucceed ==
    LET C == {r \in Reqs : Started(r)}
    IN  ( /\ backend = "memory"
          /\ \A r \in C : /\ IsCreate(r)
                          /\ input[r].body.wellFormed
                          /\ ValidName(Dto(r).name)
                          /\ ValidDescription(Dto(r).description)
          /\ \A r1, r2 \in C : r1 # r2 => ~EqualFold(Dto(r1).name, Dto(r2).name) )
        => /\ \A r \in C : Done(r) =>
                 /\ Created(r)
                 /\ CreatedId(r) \in DOMAIN data
                 /\ data[CreatedId(r)].Name = Dto(r).name
           /\ \A r1, r2 \in C : (Created(r1) /\ Created(r2) /\ r1 # r2) =>
                 CreatedId(r1) # CreatedId(r2)
           /\ (\A r \in C : Done(r)) => Cardinality(DOMAIN data) = Cardinality(C)

\* The same for the names the implemented validation accepts (byte length
\* 3-50 of the untrimmed name, description of at most 200 bytes).
DistinctAcceptedNamesAllSucceed ==
    LET C == {r \in Reqs : Started(r)}
    IN  ( /\ backend = "memory"
          /\ \A r \in C : /\ Bound(r)
                          /\ CreateModuleStep1And2(Dto(r)) = << >>
                          /\ ByteLen(Dto(r).description) <= DescMaxLen
          /\ \A r1, r2 \in C : r1 # r2 => ~EqualFold(Dto(r1).name, Dto(r2).name) )
        => /\ \A r \in C : Done(r) =>
                 /\ Created(r)
                 /\ CreatedId(r) \in DOMAIN data
                 /\ data[CreatedId(r)].Name = Dto(r).name
           /\ \A r1, r2 \in C : (Created(r1) /\ Created(r2) /\ r1 # r2) =>
                 CreatedId(r1) # CreatedId(r2)
           /\ (\A r \in C : Done(r)) => Cardinality(DOMAIN data) = Cardinality(C)

(***************************************************************************)
(* C3: a create request processed when a module is already stored whose    *)
(* name differs from the requested name only in letter case is answered    *)
(* 409 RESOURCE_CONFLICT, and the store is left as it was.                 *)
(***************************************************************************)
\* a stored name differs from name only in letter case
CaseVariantStored(name) ==
    \E id \in DOMAIN data : data[id].Name # name /\ EqualFold(data[id].Name, name)

\* worker r is a create request that this step takes past its name check
\* (answering it or sending it on to be persisted), from a state in which a
\* case variant of its name is stored
DecidedWithVariantStored(r) ==
    /\ pc[r] \in {"idle", "nameCheck", "inNameCheck"}
    /\ pc'[r] \in {"done", "persist"}
    /\ input'[r].route = "create"
    /\ input'[r].body.wellFormed
    /\ CaseVariantStored(input'[r].body.dto.name)

ConflictAnswered(r) ==
    /\ pc'[r] = "done"
    /\ Len(written'[r]) = 1
    /\ StatusAndCode(written'[r][1]) = <<StatusConflict, "RESOURCE_CONFLICT">>
    /\ data' = data
    /\ autoIncrementID' = autoIncrementID

C4_ValidCreateSucceeds ==
    \A r \in Reqs :
        ( /\ backend = "memory"
          /\ Done(r)
          /\ IsCreate(r)
          /\ input[r].body.wellFormed
          /\ ValidName(Dto(r).name)
          /\ ValidDescription(Dto(r).description)
          /\ ~StoredByAnother(r, Dto(r).name) )
        => /\ Created(r)
           /\ CreatedId(r) > 0
           /\ CreatedId(r) \in DOMAIN data
           /\ \A id \in DOMAIN data : id # CreatedId(r) => data[id].ID # CreatedId(r)

(***************************************************************************)
(* C5: ModuleService.CreateModule returns the error of the first of its    *)
(* rules that fails, in the order name required, name length, name exists, *)
(* description length, each rule being the check the service makes; the    *)
(* repository is not asked, and no entity is built, once an earlier rule   *)
(* has failed; a duplicate name with an over-long description yields       *)
(* NameExists.                                                             *)
(***************************************************************************)
C5_FirstViolatedRule ==
    \A r \in Reqs :
        (Started(r) /\ Bound(r)) =>
            LET dto == Dto(r)
            IN  IF TrimSpace(dto.name) = << >>
                THEN svcErr[r] = <<ErrNameRequired>> /\ exists[r] = << >> /\ entity[r] = << >>
                ELSE IF ByteLen(dto.name) < NameMinLen \/ ByteLen(dto.name) > NameMaxLen
                THEN svcErr[r] = <<ErrNameLength>> /\ exists[r] = << >> /\ entity[r] = << >>
                ELSE IF exists[r] = << >>
                THEN svcErr[r] = << >> /\ entity[r] = << >>
                ELSE IF exists[r][1]
                THEN /\ svcErr[r] = <<ErrNameExists>>
                     /\ entity[r] = << >>
                     /\ \E id \in DOMAIN data : EqualFold(data[id].Name, dto.name)
                ELSE IF ByteLen(dto.description) > DescMaxLen
                THEN svcErr[r] = <<ErrDescriptionLength>> /\ entity[r] = << >>
                ELSE svcErr[r] = << >> /\ entity[r] # << >>

C5_Witness ==
    \E r \in Reqs :
        /\ Done(r)
        /\ Bound(r)
        /\ exists[r] = <<TRUE>>
        /\ ByteLen(Dto(r).description) > DescMaxLen
        /\ svcErr[r] = <<ErrNameExists>>

(***************************************************************************)
(* C6: for a request name whose trimmed form is not empty, CreateModule    *)
(* returns the NameLength error exactly when the length of the trimmed     *)
(* name is below 3 or above 50.                                            *)
(***************************************************************************)
C6_TrimmedNameLength ==
    \A r \in Reqs :
        (Started(r) /\ Bound(r) /\ TrimSpace(Dto(r).name) # << >>) =>
            ( svcErr[r] = <<ErrNameLength>>
              <=> \/ ByteLen(TrimSpace(Dto(r).name)) < NameMinLen
                  \/ ByteLen(TrimSpace(Dto(r).name)) > NameMaxLen )

(***************************************************************************)
(* C7: every service error is answered with the status and code of the     *)
(* fixed table: NameRequired, NameLength, DescriptionLength 400            *)
(* VALIDATION_ERROR; NameExists 409 RESOURCE_CONFLICT; NotFound 404        *)
(* NOT_FOUND; any other error, a wrapped storage fault included, 500       *)
(* INTERNAL_ERROR; and a request the service refused gets that one answer. *)
(***************************************************************************)
\* a fault of the storage backend, and the two ways the service wraps one
StorageFault == NewError("storage.fault", "connection refused")
ServiceErrors ==
    {ErrNameRequired, ErrNameLength, ErrNameExists, ErrDescriptionLength, ErrNotFound,
     ErrInvalidID, ErrInvalidModuleID,
     Wrap("database error checking name: ", StorageFault),
     Wrap("database error creating module: ", StorageFault)}

\* the table of the claim, by the identity of the error
ErrorTable(err) ==
    IF err.id \in {"ErrNameRequired", "ErrNameLength", "ErrDescriptionLength"}
    THEN <<StatusBadRequest, "VALIDATION_ERROR">>
    ELSE IF err.id = "ErrNameExists" THEN <<StatusConflict, "RESOURCE_CONFLICT">>
    ELSE IF err.id = "ErrNotFound" THEN <<StatusNotFound, "NOT_FOUND">>
    ELSE <<StatusInternalServerError, "INTERNAL_ERROR">>

C7_ErrorMapping ==
    /\ \A err \in ServiceErrors :
          StatusAndCode(handleServiceError(err, NewUUID(1))) = ErrorTable(err)
    /\ \A r \in Reqs :
          svcErr[r] # << >> =>
              /\ Done(r)
              /\ Len(written[r]) = 1
              /\ StatusAndCode(written[r][1]) = ErrorTable(svcErr[r][1])

C7_Witness ==
    \E r1, r2 \in Reqs :
        /\ svcErr[r1] = <<ErrDescriptionLength>>
        /\ Answered(r1, StatusBadRequest, "VALIDATION_ERROR")
        /\ svcErr[r2] = <<ErrInvalidID>>
        /\ Answered(r2, StatusInternalServerError, "INTERNAL_ERROR")

(***************************************************************************)
(* C8: with the in-memory repository, a get-by-id whose id is a            *)
(* well-formed integer that no stored module has (zero, negative, or at    *)
(* or above the next id to assign) is answered 404 NOT_FOUND: the service  *)
(* returned NotFound.                                                      *)
(***************************************************************************)
C8_UnknownIdNotFound ==
    \A r \in Reqs :
        ( /\ backend = "memory"
          /\ Done(r)
          /\ IsGet(r)
          /\ Atoi(input[r].id).ok
          /\ Atoi(input[r].id).n \notin DOMAIN data )
        => /\ svcErr[r] = <<ErrNotFound>>
           /\ Answered(r, StatusNotFound, "NOT_FOUND")
           /\ written[r][1].body.data = << >>

C8_Witness ==
    \E r1, r2 \in Reqs :
        /\ Created(r1)
        /\ IsGet(r2)
        /\ Atoi(input[r2].id).ok
        /\ Atoi(input[r2].id).n >= autoIncrementID
        /\ Answered(r2, StatusNotFound, "NOT_FOUND")

(***************************************************************************)
(* C9: a get-by-id whose id is not a number ends in an error that is not   *)
(* not-found at any layer: the repository's invalid-id error reaches the   *)
(* handler unchanged, it is not (and does not wrap) NotFound, and the      *)
(* response's status and code are not 404 NOT_FOUND, whatever is stored.   *)
(***************************************************************************)
C9_MalformedIdIsNotNotFound ==
    \A r \in Reqs :
        (Done(r) /\ IsGet(r) /\ ~Atoi(input[r].id).ok) =>
            /\ svcErr[r] = IF backend = "memory" THEN <<ErrInvalidID>>
                           ELSE <<ErrInvalidModuleID>>
            /\ ~ErrorsIs(svcErr[r][1], ErrNotFound)
            /\ Len(written[r]) = 1
            /\ StatusAndCode(written[r][1]) # <<StatusNotFound, "NOT_FOUND">>
            /\ ~written[r][1].body.success

C9_Witness ==
    \E r \in Reqs :
        /\ Done(r)
        /\ IsGet(r)
        /\ ~Atoi(input[r].id).ok
        /\ data # << >>
        /\ Len(written[r]) = 1

C11_RequestIdPropagated ==
    \A r \in Reqs :
        Started(r) =>
            /\ ctx[r].request_id # << >>
            /\ input[r].header # << >> => ctx[r].request_id = input[r].header
            /\ ctx[r].header = ctx[r].request_id
            /\ \A i \in 1..Len(written[r]) :
                  written[r][i].body.meta.requestId = ctx[r].request_id
            /\ Done(r) => Len(written[r]) >= 1

\* a request with the header ends in a recovered panic, one without it in a
\* service error
C11_Witness ==
    \E r1, r2 \in Reqs :
        /\ input[r1].header = ClientRequestId
        /\ panicVal[r1] # << >>
        /\ written[r1][1].body.meta.requestId = ClientRequestId
        /\ input[r2].header = << >>
        /\ Done(r2)
        /\ svcErr[r2] # << >>
        /\ written[r2][1].body.meta.requestId = NewUUID(r2)

(***************************************************************************)
(* C12: round trip.  Once a create has been answered 201, every get-by-id  *)
(* for the returned id that is answered from then on (whatever other       *)
(* creates and gets ran in between) is answered 200 with the id, name,     *)
(* description, isActive and createdAt of the create response.             *)
(***************************************************************************)
\* this step answers the get-by-id of worker g, which asks for the id the
\* create of worker c was answered with before the step
GetAnsweredAfterCreate(c, g) ==
    /\ Created(c)
    /\ pc[g] # "done"
    /\ pc'[g] = "done"
    /\ input'[g].route = "get"
    /\ Atoi(input'[g].id) = [ok |-> TRUE, n |-> CreatedId(c)]

C13_PanicAnswered500 ==
    \A r \in Reqs :
        panicVal[r] # << >> =>
            /\ Done(r)
            /\ Len(written[r]) = 1
            /\ LET resp == written[r][1]
                   env  == resp.body
               IN  /\ resp.status = StatusInternalServerError
                   /\ ~env.success
                   /\ env.data = << >>
                   /\ Len(env.error) = 1
                   /\ env.error[1].code = "INTERNAL_ERROR"
                   /\ env.error[1].details = << >>
                   /\ env.message = StatusToMessage(StatusInternalServerError)
                   /\ env.error[1].message = StatusToMessage(StatusInternalServerError)
                   /\ panicVal[r][1] \notin {env.message, env.error[1].message}

\* both routes panic on the GORM repository's nil handle
C13_Witness ==
    \E r1, r2 \in Reqs :
        /\ IsCreate(r1) /\ panicVal[r1] = <<NilDereference>> /\ Done(r1)
        /\ IsGet(r2) /\ panicVal[r2] = <<NilDereference>> /\ Done(r2)

(***************************************************************************)
(* The exception middleware around any handler.  ExceptionHandler is       *)
(* registered for every route; what it does after ctx.Next() depends on    *)
(* what the handler behind it left in the context.  Here the handler is    *)
(* any gin handler that returns normally: it may set a status, write a     *)
(* response with ctx.JSON, and attach errors with ctx.Error.               *)
(***************************************************************************)
\* errors a handler attaches
AttachedFault    == NewError("handler.fault", "dial tcp 10.0.0.5:5432: connection refused")
AttachedNotFound == NewError("handler.notFound", "sql: no rows in result set")

\* what a handler leaves behind: the status it set (200: none), whether it
\* wrote a response with that status, and the errors it attached
HandlerOutcomes ==
    [status : {StatusOK, StatusBadRequest, StatusNotFound},
     wrote  : BOOLEAN,
     errors : {<< >>, <<AttachedFault>>, <<AttachedNotFound, AttachedFault>>}]

\* the response a handler writes with ctx.JSON(status, envelope)
HandlerResponse(status, requestID) ==
    IF status = StatusOK
    THEN MapperSuccess(requestID, <<"payload">>, StatusToMessage(status), status)
    ELSE MapperError(requestID, "HANDLER_ERROR", StatusToMessage(status), << >>, status)

\* a request runs through RequestIDHandler and ExceptionHandler into a handler,
\* which returns normally
AnyHandlerReturns(r) ==
    /\ pc[r] = "idle"
    /\ \A q \in Reqs : q < r => pc[q] # "idle"
    /\ \E header \in {<< >>, ClientRequestId}, o \in HandlerOutcomes :
         LET c == RequestIDHandler(header, r)
         IN  /\ input' = [input EXCEPT ![r] = [NoInput EXCEPT !.route = "any",
                                                              !.header = header]]
             /\ ctx' = [ctx EXCEPT ![r] = [c EXCEPT !.status = o.status,
                                                    !.errors = o.errors]]
             /\ written' = [written EXCEPT ![r] =
                              IF o.wrote THEN <<HandlerResponse(o.status, c.request_id)>>
                              ELSE << >>]
    /\ pc' = [pc EXCEPT ![r] = "returned"]
    /\ UNCHANGED <<backend, data, autoIncrementID, mu, clock, exists, entity, svcErr,
                   panicVal>>

\* ExceptionHandler resumes after ctx.Next()
ExceptionHandlerResumes(r) ==
    /\ pc[r] = "returned"
    /\ written' = [written EXCEPT ![r] = ExceptionHandlerAfterNext(ctx[r], @)]
    /\ pc' = [pc EXCEPT ![r] = "done"]
    /\ UNCHANGED <<backend, data, autoIncrementID, mu, clock, input, ctx, exists, entity,
                   svcErr, panicVal>>

MiddlewareNext ==
    \E r \in Reqs :
        \/ AnyHandlerReturns(r)
        \/ ExceptionHandlerResumes(r)

MiddlewareSpec == Init /\ [][MiddlewareNext]_vars

(***************************************************************************)
(* C14: after a handler returned normally, the exception middleware writes *)
(* an error envelope only when the handler attached at least one error and *)
(* wrote no response of its own, with the status already set, or 500 when  *)
(* that is still 200; when the handler wrote a response, or attached no    *)
(* error, the middleware writes nothing further.                           *)
(***************************************************************************)
\* this step is ExceptionHandler resuming for worker r
Resumes(r) == pc[r] = "returned" /\ pc'[r] = "done"

\* the envelope of the conversion was appended to what the handler wrote
ConvertedEnvelopeWritten(r) ==
    /\ Len(written'[r]) = Len(written[r]) + 1
    /\ SubSeq(written'[r], 1, Len(written[r])) = written[r]
    /\ LET resp == written'[r][Len(written'[r])]
       IN  /\ resp.status = IF WriterStatus(ctx[r], written[r]) = StatusOK
                            THEN StatusInternalServerError
                            ELSE WriterStatus(ctx[r], written[r])
           /\ ~resp.body.success
           /\ resp.body.error # << >>
           /\ resp.body.error[1].code = "INTERNAL_ERROR"

C14_DeferredErrorsConverted ==
    [][\A r \in Reqs :
         Resumes(r) =>
             IF ctx[r].errors # << >> /\ written[r] = << >>
             THEN ConvertedEnvelopeWritten(r)
             ELSE written'[r] = written[r]]_vars

\* What the middleware does: the conversion happens exactly when an error is
\* attached, also after the handler's own response.
DeferredErrorsConvertedWheneverAttached ==
    [][\A r \in Reqs :
         Resumes(r) =>
             IF ctx[r].errors # << >>
             THEN ConvertedEnvelopeWritten(r)
             ELSE written'[r] = written[r]]_vars

(***************************************************************************)
(* C15: no failure response exposes internal error text: for storage       *)
(* faults, unmapped service errors, recovered panics and deferred handler  *)
(* errors alike, the envelope's message is the canonical StatusToMessage   *)
(* phrase of its status and its details do not hold the text of the        *)
(* underlying error.                                                       *)
(***************************************************************************)
\* the details of the envelope hold the text of err
DetailsHoldTextOf(env, err) ==
    /\ env.error # << >>
    /\ env.error[1].details # << >>
    /\ \E f \in DOMAIN env.error[1].details[1] :
          \E i \in 1..Len(env.error[1].details[1][f]) :
              env.error[1].details[1][f][i] = err.text

\* deferred handler errors: every failure envelope of a request whose
\* handler attached errors
C15_NoInternalErrorText ==
    \A r \in Reqs :
        \A i \in 1..Len(written[r]) :
            LET resp == written[r][i]
            IN  ~resp.body.success =>
                    /\ resp.body.message = StatusToMessage(resp.status)
                    /\ resp.body.error[1].message = StatusToMessage(resp.status)
                    /\ \A e \in 1..Len(ctx[r].errors) :
                          ~DetailsHoldTextOf(resp.body, ctx[r].errors[e])

\* The other three sources, in the module API itself: an error the handler
\* maps to 500 (a storage fault, an unmapped service error) and a recovered
\* panic are answered with the canonical message and no details.
NoInternalErrorTextFromHandlers ==
    /\ \A err \in ServiceErrors :
          LET resp == handleServiceError(err, NewUUID(1))
          IN  resp.status = StatusInternalServerError =>
                  /\ resp.body.message = StatusToMessage(StatusInternalServerError)
                  /\ resp.body.error[1].message = StatusToMessage(StatusInternalServerError)
                  /\ resp.body.error[1].details = << >>
    /\ \A r \in Reqs :
          \A i \in 1..Len(written[r]) :
              LET resp == written[r][i]
              IN  resp.status = StatusInternalServerError =>
                      /\ resp.body.message = StatusToMessage(StatusInternalServerError)
                      /\ resp.body.error[1].message = StatusToMessage(StatusInternalServerError)
                      /\ resp.body.error[1].details = << >>

(***************************************************************************)
(* C16: every request terminates.  Under fair scheduling of the request    *)
(* workers, a request that has arrived is eventually answered and then     *)
(* does not hold the repository's lock, and a worker that took the lock    *)
(* eventually releases it, the malformed-id return of GetModuleById        *)
(* included.                                                               *)
(***************************************************************************)
C16_EveryRequestTerminates ==
    \A r \in Reqs :
        /\ Started(r) ~> (Done(r) /\ Len(written[r]) >= 1 /\ mu # r)
        /\ (mu = r) ~> (mu # r)

\* two requests contended for the lock, one of them a get-by-id with a
\* malformed id, and both are answered with the lock free
C16_Witness ==
    \E r1, r2 \in Reqs :
        /\ backend = "memory"
        /\ IsGet(r1) /\ ~Atoi(input[r1].id).ok /\ Done(r1)
        /\ Created(r2)
        /\ mu = 0

(***************************************************************************)
(* C17: counter/map consistency of the in-memory repository.  At most one  *)
(* repository operation is inside the lock at any time; whenever the lock  *)
(* is free the stored ids are exactly 1..autoIncrementID-1 and every       *)
(* stored module's ID is its map key; and each CreateModule assigns an id  *)
(* strictly greater than every id assigned before it.                      *)
(***************************************************************************)
\* worker r is inside one of the repository's three methods, past its Lock()
InsideLock(r) == pc[r] \in {"inNameCheck", "inCreate", "inStore", "inLookup"}

\* the ids CreateModule has assigned so far
AssignedIds ==
    {entity[r][1].ID : r \in {q \in Reqs : entity[q] # << >> /\ entity[q][1].ID # 0}}
        \cup DOMAIN data

CounterMapConsistent ==
    /\ Cardinality({r \in Reqs : InsideLock(r)}) <= 1
    /\ \A r \in Reqs : InsideLock(r) <=> mu = r
    /\ mu = 0 =>
          /\ DOMAIN data = 1..(autoIncrementID - 1)
          /\ \A k \in DOMAIN data : data[k].ID = k

\* a step in which CreateModule assigns an id to the entity of worker r
IdAssignedGreater(r) ==
    (pc[r] = "inCreate" /\ pc'[r] = "inStore") =>
        /\ entity'[r][1].ID # 0
        /\ \A id \in AssignedIds : entity'[r][1].ID > id

C17_CounterMapConsistency ==
    /\ []CounterMapConsistent
    /\ [][\A r \in Reqs : IdAssignedGreater(r)]_vars

\* two creates went through the lock one after the other
C17_Witness ==
    /\ backend = "memory"
    /\ mu = 0
    /\ autoIncrementID = 3
    /\ DOMAIN data = {1, 2}
    /\ \A r \in Reqs : Created(r)

(***************************************************************************)
(* C18: operations that do not succeed in creating leave the store         *)
(* untouched.  Only the repository's CreateModule changes the stored       *)
(* collection or the id counter; a request reaches it only as a create     *)
(* that passed transport validation and all four service rules, and then   *)
(* ends in 201; so a rejected create and every get-by-id leave both        *)
(* unchanged, and the ids consumed are those of the creates that were let  *)
(* through.                                                                *)
(***************************************************************************)
\* worker r has reached the repository's CreateModule
ReachedCreateModule(r) == pc[r] \in {"persist", "inCreate", "inStore"} \/ entity[r] # << >>

\* the entity of worker r was given an id
ConsumedId(r) == entity[r] # << >> /\ entity[r][1].ID # 0

OnlyAcceptedCreatesReachTheStore ==
    /\ \A r \in Reqs :
          /\ ReachedCreateModule(r) =>
                /\ Bound(r)
                /\ CreateModuleStep1And2(Dto(r)) = << >>
                /\ exists[r] = <<FALSE>>
                /\ CreateModuleStep3And4(FALSE, Dto(r)) = << >>
                /\ svcErr[r] = << >>
                /\ Done(r) => Created(r)
          /\ (Done(r) /\ ~Created(r)) => ~ConsumedId(r)
    /\ autoIncrementID = 1 + Cardinality({r \in Reqs : ConsumedId(r)})
    /\ \A k \in DOMAIN data : \E r \in Reqs : ConsumedId(r) /\ entity[r][1].ID = k

\* a step of worker r outside the repository's CreateModule
StepOutsideCreateModule(r) ==
    /\ pc'[r] # pc[r]
    /\ pc[r] \notin {"inCreate", "inStore"}

C18_RejectedLeaveStoreUntouched ==
    /\ []OnlyAcceptedCreatesReachTheStore
    /\ [][\A r \in Reqs :
            StepOutsideCreateModule(r) =>
                (data' = data /\ autoIncrementID' = autoIncrementID)]_vars

\* a create refused for its duplicate name and a create let through before
\* it, which got the first id
C18_Witness ==
    \E r1, r2 \in Reqs :
        /\ IsCreate(r1) /\ Done(r1) /\ svcErr[r1] = <<ErrNameExists>>
        /\ Created(r2)
        /\ autoIncrementID = 2
        /\ DOMAIN data = {1}

====
